---- MODULE Spec2Model ----
(***************************************************************************)
(* Model of badger's encryption-key registry (key_registry.go) and of the  *)
(* stream cipher helper it uses (package y).                               *)
(*                                                                         *)
(* Abstractions.  A byte string is a small integer.  A storage key is 0    *)
(* (empty, len(key) = 0) or one of the valid-length keys 1 and 2.  The     *)
(* AES-CTR keystream of (key, iv) is a 3-bit number that is never zero and *)
(* differs for different (key, iv).  A file is its header followed by its  *)
(* records.  Time is whole seconds since the Unix epoch, scaled.           *)
(***************************************************************************)
EXTENDS Integers, Sequences, FiniteSets, TLC

\* ------------------------------------------------------------- bounds
MaxKeyID == 2          \* rotations are attempted only while nextKeyID < MaxKeyID
MaxTime == 4           \* the clock stops at MaxTime
MaxRewrites == 1       \* calls of WriteKeyRegistry on a published registry
MaxOpens == 2          \* calls of OpenKeyRegistry
MaxLen == 3            \* bytes the reader handed to XORReader delivers

\* ------------------------------------------------- program constants
RotationPeriod == 2    \* opt.EncryptionKeyRotationDuration, in clock units
SanityText == 6        \* sanityText, "Hello Badger"
BufferSize == 2        \* bufferSize of XORReader, in bytes of the model

Procs == {1, 2}                \* goroutines calling into the registry
StorageKeys == {0, 1, 2}       \* opt.EncryptionKey: 0 is the empty key
IVs == {0, 1}                  \* outcomes of GenerateIV
Randoms == {<<0, 1>>, <<1, 0>>} \* outcomes <<iv, k>> of GenerateIV and rand.Read(k)
KeyIDs == 0 .. MaxKeyID        \* arguments of dataKey(id)
StartTime == RotationPeriod    \* time.Now() is far from the epoch: a registry
                               \* with lastCreated = 0 is always stale

\* ----------------------------------------------------- stream cipher
Bit(a, i) == (a \div (2 ^ i)) % 2

\* cipher.Stream.XORKeyStream on one 3-bit block
XORKeyStream(a, b) ==
    ((Bit(a, 0) + Bit(b, 0)) % 2)
    + 2 * ((Bit(a, 1) + Bit(b, 1)) % 2)
    + 4 * ((Bit(a, 2) + Bit(b, 2)) % 2)

\* the keystream cipher.NewCTR(aes.NewCipher(key), iv) produces
KeyStream(key, iv) == 2 * key + iv

\* y.XORBlock(src, key, iv); the callers pass only non-empty keys
XORBlock(src, key, iv) == XORKeyStream(src, KeyStream(key, iv))

\* ------------------------------------------------------ record codec
\* (*pb.DataKey)(nil)
NoKey == [KeyId |-> 0, Data |-> 0, Iv |-> 0, CreatedAt |-> 0]

\* pb.DataKey.Marshal / Unmarshal: the four fields, in field order
Marshal(k) == <<k.KeyId, k.Data, k.Iv, k.CreatedAt>>
Unmarshal(data) ==
    [KeyId |-> data[1], Data |-> data[2], Iv |-> data[3], CreatedAt |-> data[4]]

\* crc32.Checksum(data, y.CastagnoliCrcTable)
Checksum(data) == (data[1] + 3 * data[2] + 5 * data[3] + 7 * data[4]) % 16

\* the xor closure of storeDataKey applied to k: k.Data is replaced in place
XorDataKey(storageKey, k) ==
    IF storageKey = 0 THEN k
    ELSE [k EXCEPT !.Data = XORBlock(k.Data, storageKey, k.Iv)]

\* what storeDataKey appends to buf for a DataKey that the first xor() has
\* already been applied to
EncodeRecord(k) ==
    [len |-> Len(Marshal(k)), crc |-> Checksum(Marshal(k)), data |-> Marshal(k)]

\* storeDataKey(buf, storageKey, k) on a DataKey no one else can reach: the
\* bytes added to buf
StoreDataKey(storageKey, k) == EncodeRecord(XorDataKey(storageKey, k))

\* --------------------------------------------------------- the files
NoFile == [exists |-> FALSE, hdr |-> <<>>, recs |-> <<>>]
EmptyFile == [exists |-> TRUE, hdr |-> <<>>, recs |-> <<>>]

\* iv and eSanity as WriteKeyRegistry puts them in buf
EncodeHeader(key, iv) ==
    [iv |-> iv,
     sanity |-> IF key = 0 THEN SanityText ELSE XORBlock(SanityText, key, iv)]

\* isValidRegistry without the comparison of the sanity text
HeaderPresent(f, key) == IF f.hdr = <<>> THEN "EOF" ELSE "ok"

\* isValidRegistry(fp, encryptionKey): "ok" or the error
IsValidRegistry(f, key) ==
    IF f.hdr = <<>> THEN "EOF"
    ELSE LET h == f.hdr[1]
             eSanityText == IF key = 0 THEN h.sanity
                            ELSE XORBlock(h.sanity, key, h.iv)
         IN IF eSanityText # SanityText THEN "ErrEncryptionKeyMismatch" ELSE "ok"

\* data := make([]byte, l) after fp.Read(data) delivered the bytes of got: the
\* bytes the file no longer holds stay zero
Pad(got, l) == [i \in 1 .. l |-> IF i <= Len(got) THEN got[i] ELSE 0]

\* Next without the comparison of the checksum
NextUnchecked(rec, key) ==
    IF rec.len > 0 /\ Len(rec.data) = 0
    THEN [err |-> "EOF", dk |-> NoKey]
    ELSE [err |-> "ok",
          dk |-> XorDataKey(key, Unmarshal(Pad(rec.data, rec.len)))]

\* keyRegistryIterator.Next on the record rec, which is complete or is the cut
\* end of the file: the DataKey, the error, or "EOF" for the return nil, nil.
\* A record cut inside its header has no crc.
IterNext(rec, key) ==
    IF rec.len > 0 /\ Len(rec.data) = 0
    THEN [err |-> "EOF", dk |-> NoKey]
    ELSE IF Checksum(Pad(rec.data, rec.len)) # rec.crc
    THEN [err |-> "errBadChecksum", dk |-> NoKey]
    ELSE [err |-> "ok",
          dk |-> XorDataKey(key, Unmarshal(Pad(rec.data, rec.len)))]

\* the in-memory fields of a KeyRegistry
NewKeyRegistry == [dataKeys |-> <<>>, lastCreated |-> 0, nextKeyID |-> 0]

Max(a, b) == IF a > b THEN a ELSE b

\* one turn of the loop of readKeyRegistry
LoadOne(r, dk) ==
    LET nk == Max(r.nextKeyID, dk.KeyId)
    IN [dataKeys |-> [i \in (DOMAIN r.dataKeys) \cup {nk} |->
                         IF i = nk THEN dk ELSE r.dataKeys[i]],
        lastCreated |-> Max(r.lastCreated, dk.CreatedAt),
        nextKeyID |-> nk]

RECURSIVE LoadFrom(_, _, _, _)
LoadFrom(recs, i, key, r) ==
    IF i > Len(recs) THEN [err |-> "ok", kr |-> r]
    ELSE LET n == IterNext(recs[i], key)
         IN IF n.err = "EOF" THEN [err |-> "ok", kr |-> r]
            ELSE IF n.err # "ok" THEN [err |-> n.err, kr |-> r]
            ELSE LoadFrom(recs, i + 1, key, LoadOne(r, n.dk))

\* readKeyRegistry(fp, opt)
ReadKeyRegistry(f, key) ==
    LET v == IsValidRegistry(f, key)
    IN IF v # "ok" THEN [err |-> v, kr |-> NewKeyRegistry]
       ELSE LoadFrom(f.recs, 1, key, NewKeyRegistry)

\* ------------------------------------------------------------- state
VARIABLES
    canon,        \* the file at Dir/KEYREGISTRY
    tmp,          \* the file at Dir/REWRITE-KEYREGISTRY
    orphan,       \* the file kr.fp still holds open after a rename replaced it
    krState,      \* "none", "creating", "open" or "closed": the KeyRegistry object
    opt,          \* kr.opt
    dataKeys,     \* kr.dataKeys
    lastCreated,  \* kr.lastCreated
    nextKeyID,    \* kr.nextKeyID
    fp,           \* kr.fp: "nil", "canon" or "orphan"
    writer,       \* the goroutine holding kr.Lock(), or 0
    readers,      \* the goroutines holding kr.RLock()
    pc,           \* where each goroutine is in latestDataKey
    dk,           \* the local dk of each goroutine in latestDataKey
    t0,           \* the clock reading each goroutine's time.Since took
    wpc,          \* where the caller of WriteKeyRegistry is
    wbuf,         \* buf of WriteKeyRegistry
    wkey,         \* opt.EncryptionKey of WriteKeyRegistry
    wdone,        \* the keys of reg.dataKeys the range loop has visited
    wcur,         \* the key whose DataKey storeDataKey is working on, or 0
    now,          \* time.Now().Unix()
    opens,        \* calls of OpenKeyRegistry so far
    rewrites,     \* calls of WriteKeyRegistry on a published registry so far
    last,         \* the call that returned last, and what it returned
    issued,       \* the DataKeys latestDataKey has created and returned, by KeyId
    issuedUnder,  \* the storage key of the registry that issued them
    maxRet,       \* the largest KeyId latestDataKey has returned since the open
    writtenKey,   \* the storage key the file at Dir/KEYREGISTRY was written under
    xpc,          \* where the caller of XORReader is: "idle", "loop", "done", "failed"
    xkey,         \* key of XORReader
    xiv,          \* iv of XORReader
    xsrc,         \* all the bytes the reader in will deliver
    xrest,        \* the bytes of in not read yet
    bufOut,       \* bufOut[:bytesRead] of XORReader after the last XORKeyStream
    xout          \* the bytes written to out

diskVars == <<canon, tmp, orphan>>
krVars == <<krState, opt, dataKeys, lastCreated, nextKeyID, fp>>
lockVars == <<writer, readers>>
procVars == <<pc, dk, t0>>
wVars == <<wpc, wbuf, wkey, wdone, wcur>>
ghostVars == <<issued, issuedUnder, maxRet, writtenKey>>
streamVars == <<xpc, xkey, xiv, xsrc, xrest, bufOut, xout>>
vars == <<diskVars, krVars, lockVars, procVars, wVars, now, opens, rewrites,
          last, ghostVars, streamVars>>

NoOpt == [EncryptionKey |-> 0, ReadOnly |-> FALSE]

\* what a call returned: op, the id asked for (for an open, the storage key),
\* the DataKey and the error returned, and for a latestDataKey that returned a
\* key the clock reading it acted on (else 0)
Returned(op, id, k, err, t) ==
    [op |-> op, id |-> id, dk |-> k, err |-> err, t |-> t]

\* the registry before the first OpenKeyRegistry
InitRegistry ==
    /\ canon = NoFile /\ tmp = NoFile /\ orphan = NoFile
    /\ krState = "none" /\ opt = NoOpt
    /\ dataKeys = <<>> /\ lastCreated = 0 /\ nextKeyID = 0 /\ fp = "nil"
    /\ writer = 0 /\ readers = {}
    /\ pc = [p \in Procs |-> "idle"]
    /\ dk = [p \in Procs |-> NoKey]
    /\ t0 = [p \in Procs |-> 0]
    /\ wpc = "idle" /\ wbuf = NoFile /\ wkey = 0 /\ wdone = {} /\ wcur = 0
    /\ now = StartTime
    /\ opens = 0 /\ rewrites = 0
    /\ last = Returned("none", 0, NoKey, "nil", 0)
    /\ issued = <<>> /\ issuedUnder = 0 /\ maxRet = 0 /\ writtenKey = 0

\* no call of XORReader
InitStream ==
    /\ xpc = "idle" /\ xkey = 0 /\ xiv = 0
    /\ xsrc = <<>> /\ xrest = <<>> /\ bufOut = <<>> /\ xout = <<>>

Init == InitRegistry /\ InitStream

\* ------------------------------------------------- OpenKeyRegistry
\* kr as readKeyRegistry built it becomes the published registry
Publish(r, o, f) ==
    /\ krState' = "open"
    /\ opt' = o
    /\ dataKeys' = r.dataKeys
    /\ lastCreated' = r.lastCreated
    /\ nextKeyID' = r.nextKeyID
    /\ fp' = f

\* OpenKeyRegistry(opt) up to its first return or its call of WriteKeyRegistry
OpenKeyRegistry(key, ro) ==
    LET o == [EncryptionKey |-> key, ReadOnly |-> ro]
        r == ReadKeyRegistry(canon, key)
    IN
    /\ krState \in {"none", "closed"}
    /\ wpc = "idle"
    /\ opens < MaxOpens
    /\ opens' = opens + 1
    /\ IF canon.exists
       THEN IF r.err = "ok"
            THEN /\ Publish(r.kr, o, "canon")
                 /\ last' = Returned("open", key, NoKey, "nil", 0)
            ELSE /\ krState' = "none" /\ opt' = NoOpt /\ dataKeys' = <<>>
                 /\ lastCreated' = 0 /\ nextKeyID' = 0 /\ fp' = "nil"
                 /\ last' = Returned("open", key, NoKey, r.err, 0)
       ELSE IF ro
            THEN /\ Publish(NewKeyRegistry, o, "nil")
                 /\ last' = Returned("open", key, NoKey, "nil", 0)
            ELSE /\ krState' = "creating" /\ opt' = o /\ dataKeys' = <<>>
                 /\ lastCreated' = 0 /\ nextKeyID' = 0 /\ fp' = "nil"
                 /\ UNCHANGED last
    /\ IF ~canon.exists /\ ~ro
       THEN /\ wpc' = "trunc" /\ wkey' = key /\ wbuf' = NoFile
            /\ wdone' = {} /\ wcur' = 0
       ELSE UNCHANGED wVars
    /\ orphan' = NoFile
    /\ maxRet' = 0
    /\ UNCHANGED <<canon, tmp, lockVars, procVars, now, rewrites, issued,
                   issuedUnder, writtenKey>>
    /\ UNCHANGED streamVars

\* ------------------------------------------------------------ clock
Tick ==
    /\ now < MaxTime
    /\ now' = now + 1
    /\ UNCHANGED <<diskVars, krVars, lockVars, procVars, wVars, opens, rewrites,
                   last, ghostVars>>
    /\ UNCHANGED streamVars

\* dataKey without the id == 0 case
LookupOnly(m, id) ==
    IF id \notin DOMAIN m THEN [dk |-> NoKey, err |-> "ErrInvalidDataKeyID"]
    ELSE [dk |-> m[id], err |-> "nil"]

\* ------------------------------------------------------------ dataKey
\* kr.dataKey(id): what it returns for the map m
DataKeyOf(m, id) ==
    IF id = 0 THEN [dk |-> NoKey, err |-> "nil"]
    ELSE IF id \notin DOMAIN m THEN [dk |-> NoKey, err |-> "ErrInvalidDataKeyID"]
    ELSE [dk |-> m[id], err |-> "nil"]

\* a goroutine calls kr.dataKey(id); the method takes no lock
DataKey(p, id) ==
    /\ krState = "open"
    /\ pc[p] = "idle"
    /\ last' = Returned("dataKey", id, DataKeyOf(dataKeys, id).dk,
                        DataKeyOf(dataKeys, id).err, 0)
    /\ UNCHANGED <<diskVars, krVars, lockVars, procVars, wVars, now, opens,
                   rewrites, ghostVars>>
    /\ UNCHANGED streamVars

\* ------------------------------------------------------ latestDataKey
\* the staleness test with <= in place of <
AtMostRotationPeriod(t, created) == t - created <= RotationPeriod

\* diff < kr.opt.EncryptionKeyRotationDuration
WithinRotationPeriod(t, created) == t - created < RotationPeriod

\* kr.dataKeys[kr.nextKeyID]: nil when the map has no such key
CurrentKey(m, id) == IF id \in DOMAIN m THEN m[id] ELSE NoKey

\* the entry of latestDataKey: the empty-key return, or the reading of
\* kr.lastCreated (no lock is held) that picks the path
LatestBegin(p) ==
    /\ krState = "open"
    /\ pc[p] = "idle"
    /\ IF opt.EncryptionKey = 0
       THEN /\ last' = Returned("latest", 0, NoKey, "nil", now)
            /\ UNCHANGED <<pc, t0>>
       ELSE /\ pc' = [pc EXCEPT ![p] =
                        IF WithinRotationPeriod(now, lastCreated)
                        THEN "rlock" ELSE "lock"]
            /\ t0' = [t0 EXCEPT ![p] = now]
            /\ UNCHANGED last
    /\ UNCHANGED <<diskVars, krVars, lockVars, dk, wVars, now, opens, rewrites,
                   ghostVars>>
    /\ UNCHANGED streamVars

\* kr.RLock()
LatestRLock(p) ==
    /\ pc[p] = "rlock"
    /\ writer = 0
    /\ readers' = readers \cup {p}
    /\ pc' = [pc EXCEPT ![p] = "fast"]
    /\ UNCHANGED <<diskVars, krVars, writer, dk, t0, wVars, now, opens,
                   rewrites, last, ghostVars>>
    /\ UNCHANGED streamVars

\* dk := kr.dataKeys[kr.nextKeyID]; return dk, nil (and the deferred RUnlock)
LatestFast(p) ==
    /\ pc[p] = "fast"
    /\ readers' = readers \ {p}
    /\ pc' = [pc EXCEPT ![p] = "idle"]
    /\ last' = Returned("latest", 0, CurrentKey(dataKeys, nextKeyID), "nil",
                        t0[p])
    /\ maxRet' = Max(maxRet, CurrentKey(dataKeys, nextKeyID).KeyId)
    /\ t0' = [t0 EXCEPT ![p] = 0]
    /\ UNCHANGED <<diskVars, krVars, writer, dk, wVars, now, opens,
                   rewrites, issued, issuedUnder,
                   writtenKey>>
    /\ UNCHANGED streamVars

\* kr.Lock(); kr.nextKeyID++
LatestLock(p) ==
    /\ pc[p] = "lock"
    /\ writer = 0 /\ readers = {}
    /\ nextKeyID < MaxKeyID
    /\ writer' = p
    /\ nextKeyID' = nextKeyID + 1
    /\ pc' = [pc EXCEPT ![p] = "store"]
    /\ UNCHANGED <<diskVars, krState, opt, dataKeys, lastCreated, fp, readers,
                   dk, t0, wVars, now, opens, rewrites, last, ghostVars>>
    /\ UNCHANGED streamVars

\* an error return of the rotation path (and the deferred Unlock)
RotationFails(p, err) ==
    /\ writer' = 0
    /\ pc' = [pc EXCEPT ![p] = "idle"]
    /\ dk' = [dk EXCEPT ![p] = NoKey]
    /\ t0' = [t0 EXCEPT ![p] = 0]
    /\ last' = Returned("latest", 0, NoKey, err, 0)

\* whether kr.fp.Write can succeed: the handle is open for writing
Writable == fp # "nil" /\ ~opt.ReadOnly

\* f with the record rec added at its end
AppendRecord(f, rec) == [f EXCEPT !.recs = Append(@, rec)]

\* the DataKey literal of latestDataKey
NewDataKey(id, k, iv, t) == [KeyId |-> id, Data |-> k, Iv |-> iv, CreatedAt |-> t]

\* y.GenerateIV(), rand.Read(k), the DataKey literal, storeDataKey(buf, ...)
\* and kr.fp.Write(buf.Bytes()): the record is appended, or one of them fails
LatestStore(p) ==
    /\ pc[p] = "store"
    /\ \/ \E r \in Randoms :
            LET new == NewDataKey(nextKeyID, r[2], r[1], now)
                rec == StoreDataKey(opt.EncryptionKey, new)
            IN /\ Writable
               /\ IF fp = "canon"
                  THEN /\ canon' = AppendRecord(canon, rec)
                       /\ UNCHANGED orphan
                  ELSE /\ orphan' = AppendRecord(orphan, rec)
                       /\ UNCHANGED canon
               /\ dk' = [dk EXCEPT ![p] = new]
               /\ pc' = [pc EXCEPT ![p] = "publish"]
               /\ UNCHANGED <<writer, last, t0>>
       \/ /\ RotationFails(p, "GenerateIV")
          /\ UNCHANGED <<canon, orphan>>
       \/ /\ RotationFails(p, "rand.Read")
          /\ UNCHANGED <<canon, orphan>>
       \/ /\ RotationFails(p, "Write")
          /\ UNCHANGED <<canon, orphan>>
    /\ UNCHANGED <<tmp, krVars, readers, wVars, now, opens, rewrites, ghostVars>>
    /\ UNCHANGED streamVars

\* dk.Data = k; kr.lastCreated = dk.CreatedAt; kr.dataKeys[kr.nextKeyID] = dk;
\* return dk, nil (and the deferred Unlock)
LatestPublish(p) ==
    /\ pc[p] = "publish"
    /\ lastCreated' = dk[p].CreatedAt
    /\ dataKeys' = [i \in (DOMAIN dataKeys) \cup {nextKeyID} |->
                      IF i = nextKeyID THEN dk[p] ELSE dataKeys[i]]
    /\ writer' = 0
    /\ pc' = [pc EXCEPT ![p] = "idle"]
    /\ dk' = [dk EXCEPT ![p] = NoKey]
    /\ t0' = [t0 EXCEPT ![p] = 0]
    /\ last' = Returned("rotate", 0, dk[p], "nil", t0[p])
    /\ issued' = [i \in (DOMAIN issued) \cup {dk[p].KeyId} |->
                    IF i = dk[p].KeyId THEN dk[p] ELSE issued[i]]
    /\ issuedUnder' = opt.EncryptionKey
    /\ maxRet' = Max(maxRet, dk[p].KeyId)
    /\ UNCHANGED <<diskVars, krState, opt, nextKeyID, fp, readers, wVars,
                   now, opens, rewrites, writtenKey>>
    /\ UNCHANGED streamVars

\* ------------------------------------------------------------- Close
\* kr.Close(): kr.fp.Close()
Close ==
    /\ krState \in {"open", "closed"}
    /\ \A p \in Procs : pc[p] = "idle"
    /\ wpc = "idle"
    /\ krState' = "closed"
    /\ orphan' = NoFile
    /\ last' = Returned("close", 0, NoKey,
                        IF fp = "nil" THEN "ErrInvalid"
                        ELSE IF krState = "closed" THEN "ErrClosed" ELSE "nil",
                        0)
    /\ UNCHANGED <<canon, tmp, opt, dataKeys, lastCreated, nextKeyID, fp,
                   lockVars, procVars, wVars, now, opens, rewrites, ghostVars>>
    /\ UNCHANGED streamVars

\* the process ends at any point: the memory is gone, the files stay
Crash ==
    /\ krState # "none" \/ wpc # "idle"
    /\ krState' = "none" /\ opt' = NoOpt /\ dataKeys' = <<>>
    /\ lastCreated' = 0 /\ nextKeyID' = 0 /\ fp' = "nil"
    /\ writer' = 0 /\ readers' = {}
    /\ pc' = [p \in Procs |-> "idle"]
    /\ dk' = [p \in Procs |-> NoKey]
    /\ t0' = [p \in Procs |-> 0]
    /\ wpc' = "idle" /\ wbuf' = NoFile /\ wkey' = 0 /\ wdone' = {} /\ wcur' = 0
    /\ orphan' = NoFile
    /\ last' = Returned("crash", 0, NoKey, "nil", 0)
    /\ maxRet' = 0
    /\ UNCHANGED <<canon, tmp, now, opens, rewrites, issued, issuedUnder,
                   writtenKey>>
    /\ UNCHANGED streamVars

\* -------------------------------------------------- WriteKeyRegistry
\* a caller hands the published registry (open or closed) to WriteKeyRegistry
WriteBegin(key) ==
    /\ krState \in {"open", "closed"}
    /\ wpc = "idle"
    /\ rewrites < MaxRewrites
    /\ rewrites' = rewrites + 1
    /\ wpc' = "trunc" /\ wkey' = key /\ wbuf' = NoFile /\ wdone' = {} /\ wcur' = 0
    /\ UNCHANGED <<diskVars, krVars, lockVars, procVars, now, opens, last, ghostVars>>
    /\ UNCHANGED streamVars

\* an error return of WriteKeyRegistry; OpenKeyRegistry returns it wrapped and
\* hands out no registry
WriteFails(err) ==
    /\ wpc' = "idle" /\ wbuf' = NoFile /\ wkey' = 0 /\ wdone' = {} /\ wcur' = 0
    /\ last' = Returned("write", 0, NoKey, err, 0)
    /\ IF krState = "creating"
       THEN /\ krState' = "none" /\ opt' = NoOpt
            /\ UNCHANGED <<dataKeys, lastCreated, nextKeyID, fp>>
       ELSE UNCHANGED krVars

\* y.OpenTruncFile(tmpPath, true), y.GenerateIV(), the sanity text and the two
\* buf.Write calls
WriteHeader ==
    /\ wpc = "trunc"
    /\ \/ \E iv \in IVs :
            /\ tmp' = EmptyFile
            /\ wbuf' = [exists |-> TRUE, hdr |-> <<EncodeHeader(wkey, iv)>>,
                        recs |-> <<>>]
            /\ wpc' = "keys"
            /\ UNCHANGED <<krVars, wkey, wdone, wcur, last>>
       \/ /\ WriteFails("OpenTruncFile")
          /\ UNCHANGED tmp
       \/ /\ WriteFails("GenerateIV")
          /\ tmp' = EmptyFile
    /\ UNCHANGED <<canon, orphan, lockVars, procVars, now, opens, rewrites,
                   ghostVars>>
    /\ UNCHANGED streamVars

\* the range loop takes the next k; storeDataKey runs its first xor(), which
\* replaces k.Data of the DataKey the map points to
WriteEncrypt(id) ==
    /\ wpc = "keys"
    /\ id \in (DOMAIN dataKeys) \ wdone
    /\ dataKeys' = [dataKeys EXCEPT ![id] = XorDataKey(wkey, @)]
    /\ wcur' = id
    /\ wpc' = "store"
    /\ UNCHANGED <<diskVars, krState, opt, lastCreated, nextKeyID, fp, lockVars,
                   procVars, wbuf, wkey, wdone, now, opens, rewrites, last,
                   ghostVars>>
    /\ UNCHANGED streamVars

\* the rest of storeDataKey: Marshal, the two buf.Write calls, the second xor()
WriteStore ==
    /\ wpc = "store"
    /\ wbuf' = AppendRecord(wbuf, EncodeRecord(dataKeys[wcur]))
    /\ dataKeys' = [dataKeys EXCEPT ![wcur] = XorDataKey(wkey, @)]
    /\ wdone' = wdone \cup {wcur}
    /\ wcur' = 0
    /\ wpc' = "keys"
    /\ UNCHANGED <<diskVars, krState, opt, lastCreated, nextKeyID, fp, lockVars,
                   procVars, wkey, now, opens, rewrites, last, ghostVars>>
    /\ UNCHANGED streamVars

\* the buffer written over Dir/KEYREGISTRY itself, with no temporary file
WriteInPlace ==
    /\ wpc = "keys"
    /\ (DOMAIN dataKeys) \subseteq wdone
    /\ canon' = wbuf
    /\ wpc' = "rename"
    /\ UNCHANGED <<tmp, orphan, krVars, lockVars, procVars, wbuf, wkey, wdone,
                   wcur, now, opens, rewrites, last, ghostVars>>
    /\ UNCHANGED streamVars

\* the loop is over; fp.Write(buf.Bytes()) and fp.Close()
WriteFlush ==
    /\ wpc = "keys"
    /\ (DOMAIN dataKeys) \subseteq wdone
    /\ \/ /\ tmp' = wbuf
          /\ wpc' = "rename"
          /\ UNCHANGED <<krVars, wbuf, wkey, wdone, wcur, last>>
       \/ /\ WriteFails("Write")
          /\ UNCHANGED tmp
       \/ /\ WriteFails("Close")
          /\ tmp' = wbuf
    /\ UNCHANGED <<canon, orphan, lockVars, procVars, now, opens, rewrites,
                   ghostVars>>
    /\ UNCHANGED streamVars

\* os.Rename(tmpPath, path), syncDir(opt.Dir) and the return.  The file a
\* handle holds open lives on without a name.  In OpenKeyRegistry the second
\* OpenExistingFile and readKeyRegistry follow.
WriteRename ==
    /\ wpc = "rename"
    /\ \/ /\ canon' = tmp
          /\ writtenKey' = wkey
          /\ tmp' = NoFile
          /\ wpc' = "idle" /\ wbuf' = NoFile /\ wkey' = 0 /\ wdone' = {}
          /\ wcur' = 0
          /\ IF krState = "creating"
             THEN LET r == ReadKeyRegistry(tmp, opt.EncryptionKey)
                  IN IF r.err = "ok"
                     THEN /\ Publish(r.kr, opt, "canon")
                          /\ last' = Returned("open", opt.EncryptionKey, NoKey, "nil", 0)
                          /\ UNCHANGED orphan
                     ELSE /\ krState' = "none" /\ opt' = NoOpt
                          /\ UNCHANGED <<dataKeys, lastCreated, nextKeyID, fp,
                                         orphan>>
                          /\ last' = Returned("open", opt.EncryptionKey, NoKey, r.err, 0)
             ELSE /\ IF krState = "open" /\ fp = "canon"
                     THEN /\ orphan' = canon
                          /\ fp' = "orphan"
                     ELSE UNCHANGED <<orphan, fp>>
                  /\ UNCHANGED <<krState, opt, dataKeys, lastCreated, nextKeyID>>
                  /\ last' = Returned("write", 0, NoKey, "nil", 0)
       \/ /\ WriteFails("Rename")
          /\ UNCHANGED <<diskVars, writtenKey>>
    /\ UNCHANGED <<lockVars, procVars, now, opens, rewrites, issued,
                   issuedUnder, maxRet>>
    /\ UNCHANGED streamVars

\* --------------------------------------------------------- XORReader
Bytes == 0 .. 3                \* the bytes a reader delivers
Inputs == UNION {[1 .. n -> Bytes] : n \in 0 .. MaxLen}

Min(a, b) == IF a < b THEN a ELSE b

\* byte i of the keystream of cipher.NewCTR(block, iv); byte 1 is KeyStream
KeyStreamAt(key, iv, i) == ((KeyStream(key, iv) + i - 2) % 7) + 1

\* stream.XORKeyStream(dst, src) on a stream that has produced off bytes
XORChunk(src, key, iv, off) ==
    [i \in 1 .. Len(src) |-> XORKeyStream(src[i], KeyStreamAt(key, iv, off + i))]

\* y.XORBlock(src, key, iv) on a string of bytes
XORBytes(src, key, iv) == XORChunk(src, key, iv, 0)

\* everything but the variables of XORReader
registryVars == <<diskVars, krVars, lockVars, procVars, wVars, now, opens,
                  rewrites, last, ghostVars>>

\* XORReader(in, out, key, iv) up to the loop: the cipher, the stream and the
\* two buffers; in will deliver src
XORReaderBegin(key, iv, src) ==
    /\ xpc = "idle"
    /\ xpc' = "loop"
    /\ xkey' = key /\ xiv' = iv
    /\ xsrc' = src /\ xrest' = src
    /\ bufOut' = <<>> /\ xout' = <<>>
    /\ UNCHANGED registryVars

\* one turn of the loop: in.Read(bufIn) delivers n bytes, or io.EOF with the
\* last bytes or after them; XORKeyStream fills bufOut; out.Write is handed
\* bufIn[:bytesRead]
XORReaderLoop ==
    /\ xpc = "loop"
    /\ \/ \E n \in 0 .. Min(BufferSize, Len(xrest)), eof \in BOOLEAN :
            LET chunk == SubSeq(xrest, 1, n)
                off == Len(xsrc) - Len(xrest)
            IN /\ eof => n = Len(xrest)
               /\ ~eof => n > 0
               /\ xrest' = SubSeq(xrest, n + 1, Len(xrest))
               /\ bufOut' = XORChunk(chunk, xkey, xiv, off)
               /\ xout' = xout \o chunk
               /\ xpc' = IF eof THEN "done" ELSE "loop"
       \/ /\ xpc' = "failed"            \* in.Read or out.Write fails
          /\ UNCHANGED <<xrest, bufOut, xout>>
    /\ UNCHANGED <<xkey, xiv, xsrc>>
    /\ UNCHANGED registryVars

\* ------------------------------------------------------- corruption
\* the stored checksum of record i differs from the checksum of its payload
BadRecord(f, i) == Checksum(Pad(f.recs[i].data, f.recs[i].len)) # f.recs[i].crc

\* the disk damages the checksum of one record of the registry file while no
\* registry holds the file open
Corrupt(i) ==
    /\ krState \in {"none", "closed"} /\ wpc = "idle"
    /\ canon.exists /\ i \in 1 .. Len(canon.recs)
    /\ \A j \in 1 .. Len(canon.recs) : ~BadRecord(canon, j)
    /\ canon' = [canon EXCEPT !.recs[i].crc = (@ + 1) % 16]
    /\ UNCHANGED <<tmp, orphan, krVars, lockVars, procVars, wVars, now, opens,
                   rewrites, last, ghostVars>>
    /\ UNCHANGED streamVars

\* ------------------------------------------------------ specification
\* OpenKeyRegistry with the WriteKeyRegistry it runs, Close, and the end of
\* the process
Registry ==
    \/ \E key \in StorageKeys, ro \in BOOLEAN : OpenKeyRegistry(key, ro)
    \/ Close
    \/ Crash
    \/ WriteHeader
    \/ WriteFlush
    \/ WriteRename

Lifecycle == Registry \/ Tick

\* the steps of latestDataKey called by the goroutines in P
Latest(P) ==
    \/ \E p \in P : LatestBegin(p)
    \/ \E p \in P : LatestRLock(p)
    \/ \E p \in P : LatestFast(p)
    \/ \E p \in P : LatestLock(p)
    \/ \E p \in P : LatestStore(p)
    \/ \E p \in P : LatestPublish(p)

\* dataKey and latestDataKey called by the goroutines in P
Calls(P) ==
    \/ \E p \in P, id \in KeyIDs : DataKey(p, id)
    \/ Latest(P)

\* WriteKeyRegistry called on a published registry
Rewrite ==
    \/ \E key \in StorageKeys : WriteBegin(key)
    \/ \E id \in KeyIDs : WriteEncrypt(id)
    \/ WriteStore

\* one goroutine uses the registry while another may rewrite it
Next == Lifecycle \/ Calls({1}) \/ Rewrite

Spec == Init /\ [][Next]_vars

\* the goroutines of Procs use the registry concurrently; WriteKeyRegistry
\* runs only inside OpenKeyRegistry
NextConcurrent == Lifecycle \/ Calls(Procs)

SpecConcurrent == Init /\ [][NextConcurrent]_vars

\* one goroutine uses the registry; WriteKeyRegistry runs only inside
\* OpenKeyRegistry
NextSequential == Lifecycle \/ Calls({1})

SpecSequential == Init /\ [][NextSequential]_vars

\* one goroutine calls latestDataKey while another may rewrite the registry,
\* all within one tick of the clock
NextRewrite == Registry \/ Latest({1}) \/ Rewrite

SpecRewrite == Init /\ [][NextRewrite]_vars

\* one call of XORReader
NextStream ==
    \/ \E key \in StorageKeys \ {0}, iv \in IVs, src \in Inputs :
          XORReaderBegin(key, iv, src)
    \/ XORReaderLoop

SpecStream == Init /\ [][NextStream]_vars

\* one goroutine uses the registry; the disk may damage a record of the file
\* between two uses
NextCorrupt == NextSequential \/ \E i \in 1 .. MaxKeyID : Corrupt(i)

SpecCorrupt == Init /\ [][NextCorrupt]_vars

\* ============================================================ claims
\* a return of latestDataKey that hands out a key, with a storage key set
LatestOk(r) == r.op \in {"latest", "rotate"} /\ r.err = "nil"

\* goroutine p returns from the fast path / from a successful rotation
FastReturn(p) == pc[p] = "fast" /\ pc'[p] = "idle" /\ last'.op = "latest"
RotateReturn(p) == pc[p] = "publish" /\ pc'[p] = "idle" /\ last'.op = "rotate"

\* C1 as stated: two consecutive latest_key() calls less than the rotation
\* period apart return the same key ID, and a rotation returns a new key whose
\* ID is greater than every ID returned before.
C1_GateBetweenCalls ==
    [][\A p \in Procs :
         /\ (FastReturn(p) \/ RotateReturn(p)) /\ LatestOk(last)
              /\ opt.EncryptionKey # 0 /\ last'.t - last.t < RotationPeriod
            => last'.dk.KeyId = last.dk.KeyId
         /\ RotateReturn(p) => last'.dk.KeyId > maxRet]_vars

\* C1 amended: the gate is the age of the current key.  A call takes the fast
\* path exactly when less than the rotation period has passed since
\* lastCreated; the fast path returns the key under nextKeyID and creates
\* nothing, so two fast-path returns in a row give the same key ID; a rotation
\* that returns without error returns a key that was not in the map, stamped
\* with the current time, whose ID is greater than every ID returned since the
\* registry was opened.
C1_RotationGate ==
    [][\A p \in Procs :
         /\ pc[p] = "idle" /\ pc'[p] \in {"rlock", "lock"}
            => (pc'[p] = "rlock" <=> now - lastCreated < RotationPeriod)
         /\ FastReturn(p)
            => /\ last'.dk = CurrentKey(dataKeys, nextKeyID)
               /\ UNCHANGED <<dataKeys, nextKeyID, lastCreated, diskVars>>
               /\ (last.op = "latest" /\ last.err = "nil"
                   => last'.dk.KeyId = last.dk.KeyId)
         /\ RotateReturn(p)
            => /\ last'.dk.KeyId > maxRet
               /\ last'.dk.KeyId \notin DOMAIN dataKeys
               /\ last'.dk.KeyId = nextKeyID
               /\ dataKeys'[nextKeyID] = last'.dk]_vars

\* C1 witness: key 1 was served from the fast path and a later call rotated to
\* key 2
C1_Witness ==
    /\ last.op = "rotate" /\ last.dk.KeyId = 2
    /\ 1 \in DOMAIN dataKeys
    /\ last.dk.CreatedAt - dataKeys[1].CreatedAt >= RotationPeriod

\* C2: the records of the registry file carry the IDs 1..N in that order, and
\* the IDs in the map of an idle registry are exactly 1..N.
C2_MonotonicIDs ==
    /\ \A i \in 1 .. Len(canon.recs) : Unmarshal(canon.recs[i].data).KeyId = i
    /\ krState = "open" /\ writer = 0
       => DOMAIN dataKeys = 1 .. Cardinality(DOMAIN dataKeys)

\* C3: once the registry has been reopened with the storage key its keys were
\* issued under, get(id) returns every key that latest_key() created and
\* returned, with the same fields, and fails for an ID that was never assigned.
C3_DurableAcrossReopen ==
    krState = "open" /\ opens >= 2 /\ wpc = "idle"
        /\ opt.EncryptionKey = issuedUnder
    => /\ \A id \in DOMAIN issued :
            DataKeyOf(dataKeys, id) = [dk |-> issued[id], err |-> "nil"]
       /\ \A id \in KeyIDs \ {0} :
            id \notin DOMAIN issued /\ id > nextKeyID
            => DataKeyOf(dataKeys, id).err = "ErrInvalidDataKeyID"

\* C4: on a writable registry, a rotation that returns an error before the
\* record is in the file leaves nextKeyID (one less than the locked value),
\* lastCreated, the map and the files as they were before the call.
C4_FailedRotationIsAtomic ==
    [][\A p \in Procs :
         pc[p] = "store" /\ pc'[p] = "idle" /\ last'.op = "latest"
             /\ ~opt.ReadOnly
         => /\ nextKeyID' = nextKeyID - 1
            /\ UNCHANGED <<lastCreated, dataKeys, diskVars>>]_vars

\* C5: a registry file written under one storage key is refused with
\* ErrEncryptionKeyMismatch under every other key (the empty one included),
\* before any record is decoded, and OpenKeyRegistry hands out no registry.
C5_WrongKeyDetected ==
    /\ canon.exists
       => \A key \in StorageKeys \ {writtenKey} :
            ReadKeyRegistry(canon, key) =
                [err |-> "ErrEncryptionKeyMismatch", kr |-> NewKeyRegistry]
    /\ last.op = "open" /\ canon.exists /\ last.id # writtenKey
       => last.err = "ErrEncryptionKeyMismatch" /\ krState = "none"

\* C5 witness: a file holding records was opened with the wrong key
C5_Witness ==
    /\ last.op = "open" /\ last.err = "ErrEncryptionKeyMismatch"
    /\ last.id # writtenKey
    /\ Len(canon.recs) > 0

\* C6: no open, get or latest_key() on a read-only registry creates or writes
\* the registry file, adds a key to the map, or changes nextKeyID or lastCreated.
C6_ReadOnlyChangesNothing ==
    [][opt'.ReadOnly /\ krState' = "open" /\ wVars' = wVars
       => /\ canon' = canon
          /\ krState = "open"
             => /\ nextKeyID' = nextKeyID
                /\ lastCreated' = lastCreated
                /\ DOMAIN dataKeys' = DOMAIN dataKeys]_vars

\* C7: on a writable registry, a step that reads the map, nextKeyID or
\* lastCreated (dataKey of a non-zero id, the staleness test of latestDataKey,
\* its fast path) is taken only while no rotation holds the exclusive lock.
C7_ReadersExcluded ==
    [][(/\ ~opt.ReadOnly
        /\ \/ last'.op = "dataKey" /\ last' # last /\ last'.id # 0
           \/ \E p \in Procs : pc[p] = "idle" /\ pc'[p] \in {"rlock", "lock"}
           \/ \E p \in Procs : FastReturn(p))
       => writer = 0]_vars

\* C8: the Data of every DataKey in the map is the plaintext material that was
\* generated for it.
C8_InMemoryPlaintext ==
    \A id \in DOMAIN dataKeys :
        dataKeys[id].KeyId \in DOMAIN issued
        => dataKeys[id].Data = issued[dataKeys[id].KeyId].Data

\* C9: a step of WriteKeyRegistry (or the crash that ends it) leaves the file
\* at Dir/KEYREGISTRY as it was, except the rename, after which the file is the
\* complete buffer: the header and one record for every key visited.
C9_AtomicRewrite ==
    [][wVars' # wVars
       => \/ canon' = canon
          \/ /\ wpc = "rename"
             /\ canon' = wbuf /\ canon' = tmp
             /\ Len(canon'.hdr) = 1
             /\ Len(canon'.recs) = Cardinality(wdone)]_vars

\* C9 witness: the temporary file is written, the rename has not happened, and
\* the registry file still holds its old records
C9_Witness ==
    /\ wpc = "rename" /\ krState # "creating"
    /\ tmp = wbuf /\ tmp # canon
    /\ Len(canon.recs) > 0

\* C10: dataKey(0) returns nil, nil; dataKey of a non-zero id that is not in the
\* map returns ErrInvalidDataKeyID; dataKey of an id in the map returns the
\* DataKey stored there; the registry, its lock and the files are unchanged.
C10_GetIsPure ==
    [][\A id \in KeyIDs :
         last'.op = "dataKey" /\ last'.id = id /\ last' # last
         => /\ id = 0 => last'.dk = NoKey /\ last'.err = "nil"
            /\ id # 0 /\ id \notin DOMAIN dataKeys
               => last'.dk = NoKey /\ last'.err = "ErrInvalidDataKeyID"
            /\ id # 0 /\ id \in DOMAIN dataKeys
               => last'.dk = dataKeys[id] /\ last'.err = "nil"
            /\ UNCHANGED <<diskVars, krVars, lockVars>>]_vars

\* C10 witness: dataKey returned a key stored in the map of a registry that
\* has a storage key
C10_Witness ==
    /\ last.op = "dataKey" /\ last.id # 0 /\ last.err = "nil"
    /\ last.dk.KeyId = last.id
    /\ opt.EncryptionKey # 0

\* C11: when XORReader has returned nil, the bytes written to out are those
\* XORBlock returns for the whole input.
C11_StreamEqualsBlock ==
    xpc = "done" => xout = XORBytes(xsrc, xkey, xiv)

\* C12: every Close of a registry that OpenKeyRegistry returned, the first and
\* any later one, returns no error.
C12_CloseWithoutError ==
    last.op = "close" => last.err = "nil"

\* the largest member of a set of numbers, 0 for the empty set
SetMax(S) == IF S = {} THEN 0 ELSE CHOOSE x \in S : \A y \in S : y <= x

\* the records of f as the iterator decodes them under key
Decoded(f, key) == [i \in 1 .. Len(f.recs) |-> IterNext(f.recs[i], key)]

\* f holds a header and valid records with distinct key IDs
ValidDistinct(f, key) ==
    /\ f.exists /\ IsValidRegistry(f, key) = "ok"
    /\ \A i \in 1 .. Len(f.recs) : Decoded(f, key)[i].err = "ok"
    /\ \A i, j \in 1 .. Len(f.recs) :
          i # j => Decoded(f, key)[i].dk.KeyId # Decoded(f, key)[j].dk.KeyId

\* C13: loading a registry file of valid records with distinct key IDs gives a
\* map with one entry per record, each under its own KeyId, nextKeyID the
\* largest KeyId and lastCreated the largest CreatedAt of the file.
C13_LoadIndexesByID ==
    LET ds == Decoded(canon, writtenKey)
        r == ReadKeyRegistry(canon, writtenKey)
    IN ValidDistinct(canon, writtenKey)
       => /\ r.err = "ok"
          /\ DOMAIN r.kr.dataKeys = {ds[i].dk.KeyId : i \in DOMAIN ds}
          /\ \A i \in DOMAIN ds : r.kr.dataKeys[ds[i].dk.KeyId] = ds[i].dk
          /\ r.kr.nextKeyID = SetMax({ds[i].dk.KeyId : i \in DOMAIN ds})
          /\ r.kr.lastCreated = SetMax({ds[i].dk.CreatedAt : i \in DOMAIN ds})

\* C14: when WriteKeyRegistry has returned nil for a registry whose map it
\* wrote in full (each key under its own ID, nextKeyID the largest of them),
\* reading the file with the storage key of the rewrite gives the same map,
\* nextKeyID and lastCreated.
C14_RewriteThenReopen ==
    LET r == ReadKeyRegistry(canon, writtenKey)
    IN /\ last.op = "write" /\ last.err = "nil" /\ wpc = "idle"
       /\ krState \in {"open", "closed"}
       /\ Len(canon.recs) = Cardinality(DOMAIN dataKeys)
       /\ \A id \in DOMAIN dataKeys : dataKeys[id].KeyId = id
       /\ nextKeyID = SetMax(DOMAIN dataKeys)
       => /\ r.err = "ok"
          /\ r.kr.dataKeys = dataKeys
          /\ r.kr.nextKeyID = nextKeyID
          /\ r.kr.lastCreated = lastCreated

\* the record rec cut after k of its parts: the length, the checksum and the
\* bytes of the payload
CutRecord(rec, k) ==
    IF k = 1 THEN [len |-> rec.len, data |-> <<>>]
    ELSE [len |-> rec.len, crc |-> rec.crc, data |-> SubSeq(rec.data, 1, k - 2)]

\* the file f cut after k parts of its last record
Truncated(f, k) ==
    [f EXCEPT !.recs = [i \in 1 .. Len(f.recs) |->
                          IF i = Len(f.recs) THEN CutRecord(f.recs[i], k)
                          ELSE f.recs[i]]]

\* C15: when the registry file ends inside its last record (after part of
\* the header, after the header, or after part of the payload), reading it
\* with the key it was written under returns an error.
C15_TruncationIsAnError ==
    canon.exists /\ Len(canon.recs) > 0
    => \A k \in 1 .. 1 + Len(canon.recs[Len(canon.recs)].data) :
          ReadKeyRegistry(Truncated(canon, k), writtenKey).err # "ok"

\* C16: a registry file holding a record whose checksum is wrong is read, with
\* the key it was written under, as errBadChecksum; the record is not decoded;
\* an OpenKeyRegistry of it with that key returned errBadChecksum and handed
\* out no registry, with no key in any map.
C16_BadChecksumIsFatal ==
    canon.exists /\ (\E i \in 1 .. Len(canon.recs) : BadRecord(canon, i))
    => /\ ReadKeyRegistry(canon, writtenKey).err = "errBadChecksum"
       /\ \A i \in 1 .. Len(canon.recs) :
            BadRecord(canon, i) => IterNext(canon.recs[i], writtenKey).dk = NoKey
       /\ last.op = "open" /\ last.id = writtenKey
          => /\ last.err = "errBadChecksum"
             /\ krState = "none" /\ dataKeys = <<>> /\ fp = "nil"

\* C16 witness: the second record of the file is damaged, the first is not, and
\* OpenKeyRegistry with the right key has returned errBadChecksum
C16_Witness ==
    /\ Len(canon.recs) = 2 /\ BadRecord(canon, 2) /\ ~BadRecord(canon, 1)
    /\ last.op = "open" /\ last.id = writtenKey
    /\ last.err = "errBadChecksum"

\* C17: the step of a rotation that writes its record changes the file at
\* Dir/KEYREGISTRY by adding one complete record at its end, the record of the
\* new key; the header and the records before it stay as they were.
C17_RotationAppendsOneRecord ==
    [][\A p \in Procs :
         pc[p] = "store" /\ pc'[p] = "publish"
         => /\ canon'.exists /\ canon'.hdr = canon.hdr
            /\ Len(canon'.recs) = Len(canon.recs) + 1
            /\ SubSeq(canon'.recs, 1, Len(canon.recs)) = canon.recs
            /\ canon'.recs[Len(canon'.recs)] =
                   StoreDataKey(opt.EncryptionKey, dk'[p])
            /\ UNCHANGED tmp]_vars

\* C18: a rotation returns a new key only if the key it replaces was older
\* than the rotation period at the clock reading the caller acted on: a caller
\* that gets the lock after another caller has rotated creates no further key.
C18_OneRotationPerPeriod ==
    [][\A p \in Procs :
         RotateReturn(p) => ~WithinRotationPeriod(t0[p], lastCreated)]_vars

\* C19: with a storage key set, a latestDataKey that returns no error returns
\* the DataKey the map holds under nextKeyID, never the nil DataKey.
C19_NeverNoKey ==
    [][\A p \in Procs :
         (FastReturn(p) \/ RotateReturn(p)) /\ opt.EncryptionKey # 0
         => /\ last'.dk # NoKey
            /\ nextKeyID' \in DOMAIN dataKeys'
            /\ last'.dk = dataKeys'[nextKeyID']]_vars

\* C20: when WriteKeyRegistry has returned nil for the registry and a rotation
\* then writes the record of its new key, that record is in the file at
\* Dir/KEYREGISTRY.
C20_RotationAfterRewritePersists ==
    [][\A p \in Procs :
         /\ pc[p] = "store" /\ pc'[p] = "publish"
         /\ last.op = "write" /\ last.err = "nil" /\ wpc = "idle"
         => \E i \in 1 .. Len(canon'.recs) :
               Unmarshal(canon'.recs[i].data).KeyId = dk'[p].KeyId]_vars

====
